---- MODULE Spec2Model ----
(***************************************************************************)
(* Quizify: the page-by-page PDF ingestion loop (pdf-upload-form.tsx,      *)
(* onSubmit), the persistent store it writes to (quiz-store.ts) and the    *)
(* quiz session state machine (quiz-interface.tsx, QuizInterface), and the  *)
(* quick quiz request of the quiz page with the Best-Subset Curator        *)
(* (quizzes/[quizId]/page.tsx, generate-best-mcqs flow).                   *)
(*                                                                         *)
(* An async handler is cut at its await points: one action runs the code   *)
(* from the resolution of one awaited call up to the next awaited call.    *)
(* The loop exit of onSubmit is a control point of its own ("finalize").   *)
(***************************************************************************)
EXTENDS Integers, Sequences, FiniteSets, TLC

\* ---------------------------------------------------------------- bounds
MaxPages == 3
MaxBatch == 6
MaxQuestions == 2
MaxElaborations == 1
MaxAttempts == 2
MaxPool == 3
MaxIndices == 3
\* QUICK_QUIZ_DESIRED_COUNT is 100 in the source ([quizId]/page.tsx line 78);
\* the page and the curator only compare it with lengths, so it is scaled.
QuickQuizDesiredCount == 2
MaxTotalPages == 12
MaxStoredQuizzes == 2
MaxStoredAttempts == 2
MaxOtherSaves == 1

\* ------------------------------------------------------ program constants
MIN_TEXT_LENGTH_FOR_CONTENT == 400
MarkerSlack == 200
StartsWithSlack == 150
HeadingLimit == 150
EdgePages == 5
BatchSize == 5
NumOptions == 4

VARIABLES
  \* --- PdfUploadForm / onSubmit
  pc,            \* control point of onSubmit
  numPages,      \* pdfDoc.numPages
  i,             \* the loop variable of the page loop
  allMcqs,       \* let allMcqs: Mcq[]
  allNotes,      \* let allNotes: string[] (the pages whose notes were kept)
  pagesSkipped,  \* let pagesSkipped
  pageErrors,    \* useState pageErrors
  closureErrors, \* the pageErrors value onSubmit closed over at submit time
  progress,      \* useState progress, the fraction <<numerator, denominator>>
  isProcessing,  \* useState isProcessing
  outstanding,   \* pages whose generateMcqsForPage call has not resolved
  genCalls,      \* the pages generateMcqsForPage was called for, in call order
  genLog,        \* what the generator answered for each page
  saveQuizCalls, \* number of saveQuiz calls issued
  toastTitle,    \* title of the final toast of onSubmit
  routerPath,    \* router.push target (a quiz id), 0 when none
  \* --- Persistent store (Firestore collections)
  quizzes,       \* the 'quizzes' collection, in creation order
  attempts,      \* the 'attempts' collection, in creation order
  \* --- QuizInterface
  quiz,                   \* the quiz prop: [id, correct]
  currentQuestionIndex,
  selectedAnswers,
  answerStatuses,
  isSubmitted,
  quizFinished,
  finalAttempt,
  isSubmittingQuiz,
  elaboratedExplanations,
  isElaborating,
  pendingSaves,           \* finishQuiz calls awaiting saveQuizAttempt
  pendingElab,            \* handleElaborateExplanation calls awaiting the flow
  sessionToast,           \* title of the last toast of the session
  passAttempts,           \* Attempts created since the session start or the last retake
  \* --- QuizPage (quick quiz tab) and generateBestMcqs
  allMcqsForQuickQuiz,    \* useState allMcqsForQuickQuiz, the cross-quiz pool
  quickQuizData,          \* useState quickQuizData: the Mcqs of the quick quiz, <<>> for null
  quickQuizError,         \* useState quickQuizError
  isGeneratingQuickQuiz,  \* useState isGeneratingQuickQuiz
  quickToast,             \* title of the last toast of handleGenerateQuickQuiz
  cpc,                    \* control point of the generateBestMcqs call
  viaPage,                \* the call was made by handleGenerateQuickQuiz
  input,                  \* the input of generateBestMcqs: [allMcqs, desiredCount]
  promptCalls,            \* number of external Curator calls (prompt(input))
  indicesOutput,          \* the output of the external call
  selectedMcqs,           \* the selectedMcqs generateBestMcqs returned
  \* --- one application of the page classification of the loop
  clsPc,                  \* "idle" before the page is classified, "done" after
  clsInput,               \* [text, pageNumber, totalPages]
  clsOutcome,             \* [class, markerRule]: Classify's answer and the marker rule's
  \* --- one call of a quiz-store.ts function, and the other clients of the store
  storePc,                \* "idle", "read", "deleteQuery", "deleteCommit", "done"
  storeOp,                \* [name, id]: the function called and its argument
  storeFailed,            \* a Firestore call of the function failed
  storeResult,            \* what the function gave its caller
  delBatch,               \* ids of the attempts deleteQuiz put in its batch
  storeBefore,            \* the collections when the function was called
  otherSaves              \* saveQuizAttempt calls of other sessions that resolved

ingestVars == <<pc, numPages, i, allMcqs, allNotes, pagesSkipped, pageErrors,
                closureErrors, progress, isProcessing, outstanding, genCalls,
                genLog, saveQuizCalls, toastTitle, routerPath, quizzes>>

sessionVars == <<attempts, quiz, currentQuestionIndex, selectedAnswers,
                 answerStatuses, isSubmitted, quizFinished, finalAttempt,
                 isSubmittingQuiz, elaboratedExplanations, isElaborating,
                 pendingSaves, pendingElab, sessionToast, passAttempts>>

curateVars == <<allMcqsForQuickQuiz, quickQuizData, quickQuizError,
                isGeneratingQuickQuiz, quickToast, cpc, viaPage, input,
                promptCalls, indicesOutput, selectedMcqs>>

classVars == <<clsPc, clsInput, clsOutcome>>

storeVars == <<storePc, storeOp, storeFailed, storeResult, delBatch,
               storeBefore, otherSaves>>

extraVars == <<classVars, storeVars>>

vars == <<pc, numPages, i, allMcqs, allNotes, pagesSkipped, pageErrors,
          closureErrors, progress, isProcessing, outstanding, genCalls,
          genLog, saveQuizCalls, toastTitle, routerPath, quizzes,
          attempts, quiz, currentQuestionIndex, selectedAnswers,
          answerStatuses, isSubmitted, quizFinished, finalAttempt,
          isSubmittingQuiz, elaboratedExplanations, isElaborating,
          pendingSaves, pendingElab, sessionToast, passAttempts,
          allMcqsForQuickQuiz, quickQuizData, quickQuizError,
          isGeneratingQuickQuiz, quickToast, cpc, viaPage, input,
          promptCalls, indicesOutput, selectedMcqs,
          clsPc, clsInput, clsOutcome,
          storePc, storeOp, storeFailed, storeResult, delBatch,
          storeBefore, otherSaves>>

\* ------------------------------------------------------------------ values
\* null in a (number | null)[] answers array
Null == 0 - 1
NoToast == "none"

\* A page text, reduced to what the classifier and the loop look at:
\* its trimmed length, whether it contains one of NON_CONTENT_PAGE_TITLES,
\* the length of the title it starts with (0 when it starts with none) and
\* whether it matches /^(chapter|part|section)\s+[0-9ivxlcdm]+/i.
Text(len, contains, startsLen, chapter) ==
  [len |-> len, contains |-> contains, startsLen |-> startsLen, chapter |-> chapter]

PageTexts ==
  { Text(0, FALSE, 0, FALSE),       \* blank page
    Text(17, TRUE, 17, FALSE),      \* "table of contents"
    Text(500, TRUE, 0, FALSE),      \* prose mentioning "index"
    Text(100, FALSE, 0, TRUE),      \* "chapter 4" heading page
    Text(300, FALSE, 0, FALSE),     \* short prose
    Text(2000, FALSE, 0, FALSE),    \* prose
    Text(2000, FALSE, 0, TRUE) }    \* "chapter 4" followed by prose

\* An answer of generateMcqsForPage: it throws, or it returns n Mcqs with or
\* without pageNotes.
Threw == [kind |-> "throw", n |-> 0, notes |-> FALSE]
Returned(n, notes) == [kind |-> "result", n |-> n, notes |-> notes]
GenResults == {Threw} \cup {Returned(n, b) : n \in 0..MaxBatch, b \in BOOLEAN}
NoAnswer == [kind |-> "none", n |-> 0, notes |-> FALSE]

\* The k-th Mcq the generator returned for a page.
Mcq(page, k) == <<page, k>>
Batch(page, n) == [k \in 1..n |-> Mcq(page, k)]

PageError(page, kind) == [page |-> page, kind |-> kind]

\* ------------------------------------------------------- pure functions
\* lines 312-316: the structural-marker rule
MarkerRule(text, pageNumber, totalPages) ==
  /\ (pageNumber <= EdgePages \/ pageNumber >= totalPages - EdgePages)
  /\ text.contains
  /\ text.len < MIN_TEXT_LENGTH_FOR_CONTENT + MarkerSlack
\* lines 317-321: the text starts with a title and is little longer than it
StartsWithRule(text) ==
  /\ text.startsLen > 0
  /\ text.len < text.startsLen + StartsWithSlack
\* lines 322-324: a bare chapter, part or section heading
HeadingRuleAnyLength(text) == text.chapter
HeadingRule(text) ==
  /\ text.chapter
  /\ text.len < HeadingLimit

isLikelyNonContentPage(text, pageNumber, totalPages) ==
  \/ MarkerRule(text, pageNumber, totalPages)
  \/ StartsWithRule(text)
  \/ HeadingRule(text)

\* The reason the loop skips a page, or "content" when it reaches the generator.
Classify(text, pageNumber, totalPages) ==
  IF text.len = 0 THEN "noText"
  ELSE IF isLikelyNonContentPage(text, pageNumber, totalPages) THEN "structural"
  ELSE IF text.len < MIN_TEXT_LENGTH_FOR_CONTENT THEN "tooShort"
  ELSE "content"

\* setProgress((i / numPages) * 100), kept as an exact fraction.
ProgressAfterLags(page, total) == <<(page - 1) * 100, total>>
ProgressAfter(page, total) == <<page * 100, total>>
FracLeq(a, b) == a[1] * b[2] <= b[1] * a[2]
FracEq(a, b) == a[1] * b[2] = b[1] * a[2]

\* if (result && result.mcqs && result.mcqs.length > 0) allMcqs.push(...result.mcqs)
AcceptsBatch(res) == res.kind = "result" /\ res.n > 0
PushMcqsPrepends(all, page, res) ==
  IF AcceptsBatch(res) THEN Batch(page, res.n) \o all ELSE all
PushMcqsOverwrites(all, page, res) ==
  IF AcceptsBatch(res) THEN Batch(page, res.n) ELSE all
PushMcqs(all, page, res) ==
  IF AcceptsBatch(res) THEN all \o Batch(page, res.n) ELSE all

\* the page-error entries one generator answer adds, in the order they are added
GenErrorsNotesOnlyWithoutMcqs(page, res) ==
  IF res.kind = "throw" THEN <<PageError(page, "threw")>>
  ELSE IF AcceptsBatch(res) THEN <<>>
  ELSE <<PageError(page, "noMcqs")>>
       \o (IF res.notes THEN <<>> ELSE <<PageError(page, "noNotes")>>)
GenErrorsDropsThrow(page, res) ==
  IF res.kind = "throw" THEN <<>>
  ELSE (IF AcceptsBatch(res) THEN <<>> ELSE <<PageError(page, "noMcqs")>>)
       \o (IF res.notes THEN <<>> ELSE <<PageError(page, "noNotes")>>)
GenErrors(page, res) ==
  IF res.kind = "throw" THEN <<PageError(page, "threw")>>
  ELSE (IF AcceptsBatch(res) THEN <<>> ELSE <<PageError(page, "noMcqs")>>)
       \o (IF res.notes THEN <<>> ELSE <<PageError(page, "noNotes")>>)

PushNotes(notes, page, res) ==
  IF res.kind = "result" /\ res.notes THEN Append(notes, page) ELSE notes

\* if (allMcqs.length > 0) saveQuiz(...) else toast "Generation Failed"
ShouldSaveAlways(all) == TRUE
ShouldSave(all) == Len(all) > 0

\* the loop condition i <= numPages, evaluated after i++
NextPc(page, total) == IF page + 1 <= total THEN "extract" ELSE "finalize"

\* const result = await generateMcqsForPage(aiInput): the loop stays at page
\* i until the call has resolved
NotAwaited(page, total) == [pc |-> NextPc(page, total), i |-> page + 1]
AwaitGenerator(page, total) == [pc |-> "generate", i |-> page]

\* finally: if (allMcqs.length === 0 && pageErrors.length === 0 && pagesSkipped === 0) setProgress(0)
FinallyProgress(all, errs, skipped, prog) ==
  IF Len(all) = 0 /\ Len(errs) = 0 /\ skipped = 0 THEN <<0, 1>> ELSE prog

\* ----------------------------------------------------------- onSubmit
FormInit ==
  /\ pc = "idle"
  /\ numPages = 0
  /\ i = 0
  /\ allMcqs = <<>>
  /\ allNotes = <<>>
  /\ pagesSkipped = 0
  /\ pageErrors = <<>>
  /\ closureErrors = <<>>
  /\ progress = <<0, 1>>
  /\ isProcessing = FALSE
  /\ outstanding = {}
  /\ genCalls = <<>>
  /\ genLog = [p \in 1..MaxPages |-> NoAnswer]
  /\ saveQuizCalls = 0
  /\ toastTitle = NoToast
  /\ routerPath = 0

IngestInit == FormInit /\ quizzes = <<>>

\* lines 386-400: the state resets, then the handler awaits the file readers
\* and pdfjsLib.getDocument
Submit ==
  /\ pc = "idle"
  /\ ~isProcessing
  /\ isProcessing' = TRUE
  /\ progress' = <<0, 1>>
  /\ closureErrors' = pageErrors
  /\ pageErrors' = <<>>
  /\ allMcqs' = <<>>
  /\ allNotes' = <<>>
  /\ pagesSkipped' = 0
  /\ pc' = "open"
  /\ UNCHANGED <<extraVars, curateVars, sessionVars, numPages, i, outstanding, genCalls, genLog, saveQuizCalls,
                 toastTitle, routerPath, quizzes>>

\* catch (lines 507-513) followed by finally (lines 514-518)
Abort ==
  /\ toastTitle' = "Error"
  /\ isProcessing' = FALSE
  /\ progress' = FinallyProgress(allMcqs, closureErrors, pagesSkipped, progress)
  /\ pc' = "done"

\* lines 400-407: the document opens with its page count and the loop starts
OpenPdf ==
  /\ pc = "open"
  /\ \E n \in 1..MaxPages :
       /\ numPages' = n
       /\ i' = 1
       /\ pc' = "extract"
  /\ UNCHANGED <<extraVars, curateVars, sessionVars, allMcqs, allNotes, pagesSkipped, pageErrors, closureErrors,
                 progress, isProcessing, outstanding, genCalls, genLog,
                 saveQuizCalls, toastTitle, routerPath, quizzes>>

\* lines 400-402 reject: the file cannot be read or is not a PDF
OpenPdfFails ==
  /\ pc = "open"
  /\ Abort
  /\ UNCHANGED <<extraVars, curateVars, sessionVars, numPages, i, allMcqs, allNotes, pagesSkipped, pageErrors,
                 closureErrors, outstanding, genCalls, genLog, saveQuizCalls,
                 routerPath, quizzes>>

\* lines 408-436: the page text arrives and the page is skipped
SkipPage ==
  /\ pc = "extract"
  /\ \E text \in PageTexts :
       LET why == Classify(text, i, numPages) IN
         /\ why # "content"
         /\ pageErrors' = Append(pageErrors, PageError(i, why))
  /\ pagesSkipped' = pagesSkipped + 1
  /\ progress' = ProgressAfter(i, numPages)
  /\ i' = i + 1
  /\ pc' = NextPc(i, numPages)
  /\ UNCHANGED <<extraVars, curateVars, sessionVars, numPages, allMcqs, allNotes, closureErrors, isProcessing,
                 outstanding, genCalls, genLog, saveQuizCalls, toastTitle,
                 routerPath, quizzes>>

\* lines 408-446: the page text arrives, the page is content and the
\* generator is called
CallGenerator ==
  /\ pc = "extract"
  /\ \E text \in PageTexts : Classify(text, i, numPages) = "content"
  /\ outstanding' = outstanding \cup {i}
  /\ genCalls' = Append(genCalls, i)
  /\ pc' = AwaitGenerator(i, numPages).pc
  /\ i' = AwaitGenerator(i, numPages).i
  /\ UNCHANGED <<extraVars, curateVars, sessionVars, numPages, allMcqs, allNotes, pagesSkipped, pageErrors,
                 closureErrors, progress, isProcessing, genLog, saveQuizCalls,
                 toastTitle, routerPath, quizzes>>

\* a failed extraction that shows the error and goes on with the next page
ExtractFailsGoesOn ==
  /\ pc = "extract"
  /\ toastTitle' = "Error"
  /\ i' = i + 1
  /\ pc' = NextPc(i, numPages)
  /\ UNCHANGED <<extraVars, curateVars, sessionVars, numPages, allMcqs, allNotes, pagesSkipped, pageErrors,
                 closureErrors, progress, isProcessing, outstanding, genCalls, genLog, saveQuizCalls,
                 routerPath, quizzes>>

\* lines 408-409 reject: getPage or getTextContent fails
ExtractFails ==
  /\ pc = "extract"
  /\ Abort
  /\ UNCHANGED <<extraVars, curateVars, sessionVars, numPages, i, allMcqs, allNotes, pagesSkipped, pageErrors,
                 closureErrors, outstanding, genCalls, genLog, saveQuizCalls,
                 routerPath, quizzes>>

\* lines 446-463: the generator call of page i resolves or rejects
GeneratorAnswers ==
  /\ pc = "generate"
  /\ i \in outstanding
  /\ \E res \in GenResults :
       /\ genLog' = [genLog EXCEPT ![i] = res]
       /\ allMcqs' = PushMcqs(allMcqs, i, res)
       /\ allNotes' = PushNotes(allNotes, i, res)
       /\ pageErrors' = pageErrors \o GenErrors(i, res)
  /\ outstanding' = outstanding \ {i}
  /\ progress' = ProgressAfter(i, numPages)
  /\ i' = i + 1
  /\ pc' = NextPc(i, numPages)
  /\ UNCHANGED <<extraVars, curateVars, sessionVars, numPages, pagesSkipped, closureErrors, isProcessing, genCalls,
                 saveQuizCalls, toastTitle, routerPath, quizzes>>

\* lines 466-470: after the loop, saveQuiz is called when there are Mcqs
CallSaveQuiz ==
  /\ pc = "finalize"
  /\ ShouldSave(allMcqs)
  /\ saveQuizCalls' = saveQuizCalls + 1
  /\ pc' = "save"
  /\ UNCHANGED <<extraVars, curateVars, sessionVars, numPages, i, allMcqs, allNotes, pagesSkipped, pageErrors,
                 closureErrors, progress, isProcessing, outstanding, genCalls,
                 genLog, toastTitle, routerPath, quizzes>>

\* lines 500-506 and 514-518: nothing was generated
NoContent ==
  /\ pc = "finalize"
  /\ ~ShouldSave(allMcqs)
  /\ toastTitle' = "Generation Failed"
  /\ isProcessing' = FALSE
  /\ progress' = FinallyProgress(allMcqs, closureErrors, pagesSkipped, progress)
  /\ pc' = "done"
  /\ UNCHANGED <<extraVars, curateVars, sessionVars, numPages, i, allMcqs, allNotes, pagesSkipped, pageErrors,
                 closureErrors, outstanding, genCalls, genLog, saveQuizCalls,
                 routerPath, quizzes>>

\* saveQuiz (quiz-store.ts 105-131) resolves; onSubmit lines 471-499, 514-518
SaveQuizDone ==
  /\ pc = "save"
  /\ quizzes' = Append(quizzes, [id |-> Len(quizzes) + 1, mcqs |-> allMcqs,
                                 notes |-> allNotes])
  /\ routerPath' = Len(quizzes) + 1
  /\ toastTitle' = "Quiz & Notes Generated Successfully!"
  /\ isProcessing' = FALSE
  /\ progress' = FinallyProgress(allMcqs, closureErrors, pagesSkipped, progress)
  /\ pc' = "done"
  /\ UNCHANGED <<extraVars, curateVars, sessionVars, numPages, i, allMcqs, allNotes, pagesSkipped, pageErrors,
                 closureErrors, outstanding, genCalls, genLog, saveQuizCalls>>

\* saveQuiz rethrows the store's error (quiz-store.ts 132-135)
SaveQuizFails ==
  /\ pc = "save"
  /\ Abort
  /\ UNCHANGED <<extraVars, curateVars, sessionVars, numPages, i, allMcqs, allNotes, pagesSkipped, pageErrors,
                 closureErrors, outstanding, genCalls, genLog, saveQuizCalls,
                 routerPath, quizzes>>

IngestNext ==
  \/ Submit
  \/ OpenPdf
  \/ OpenPdfFails
  \/ SkipPage
  \/ CallGenerator
  \/ ExtractFails
  \/ GeneratorAnswers
  \/ CallSaveQuiz
  \/ NoContent
  \/ SaveQuizDone
  \/ SaveQuizFails

\* ------------------------------------------------------- QuizInterface
Slots == 0..(Len(quiz.correct) - 1)
NumQuestions == Len(quiz.correct)
\* quiz.mcqs[idx].correctAnswerIndex
CorrectIndex(idx) == quiz.correct[idx + 1]

NoAttempt == [id |-> 0, quizId |-> 0, answers |-> <<>>, score |-> 0, totalQuestions |-> 0]
NoText == [kind |-> "none", v |-> 0]

\* 0-based arrays are functions on 0..n-1
Fill(n, x) == [k \in 0..(n - 1) |-> x]

\* ans === quiz.mcqs[idx].correctAnswerIndex ? 'correct' : 'incorrect'
StatusOf(ans, correct) == IF ans = correct THEN "correct" ELSE "incorrect"

\* finalStatuses.filter(status => status === 'correct').length
ScoreOf(statuses) == Cardinality({k \in DOMAIN statuses : statuses[k] = "correct"})

\* newIsSubmitted.every(s => s === true)
AllSubmitted(flags) == \A k \in DOMAIN flags : flags[k]

\* the early return of handleOptionSelect
CanSelectIgnoresSubmitted(idx) == ~(isSubmittingQuiz \/ isElaborating[idx])
CanSelect(idx) == ~(isSubmitted[idx] \/ isSubmittingQuiz \/ isElaborating[idx])

\* if (selectedAnswers[currentQuestionIndex] === null) { toast; return }
HasSelectionUnchecked(idx) == TRUE
HasSelection(idx) == selectedAnswers[idx] # Null

\* if (quizFinished && finalAttempt) return <QuizResultSummary .../>
ShowsSummary == quizFinished /\ finalAttempt # NoAttempt

\* elaboratedExplanations[idx] || currentMcq.explanation
DisplayedExplanation(idx) ==
  IF elaboratedExplanations[idx] = NoText THEN [kind |-> "original", v |-> 0]
  ELSE elaboratedExplanations[idx]

\* the number of elaborated texts the first n slots have been given
RECURSIVE Elaborations(_)
Elaborations(n) ==
  IF n = 0 THEN 0 ELSE elaboratedExplanations[n - 1].v + Elaborations(n - 1)

\* saveQuizAttempt builds the Attempt from its arguments
NewAttempt(quizId, answers, score, total) ==
  [id |-> Len(attempts) + 1, quizId |-> quizId, answers |-> answers,
   score |-> score, totalQuestions |-> total]

\* The quizzes of the model: correctAnswerIndex is the first or the last option.
CorrectChoices == {0, NumOptions - 1}
Quizzes ==
  { [id |-> 1, correct |-> c] :
      c \in UNION { [1..n -> CorrectChoices] : n \in 1..MaxQuestions } }

\* The options a user picks in the model: the correct one and a wrong one.
Picks(correct) == {correct, (correct + 1) % NumOptions}

\* The Attempt a finished earlier session of quiz q left in the store.
EarlierAttempts(q) ==
  { [id |-> 1, quizId |-> q.id,
     answers |-> [k \in 0..(Len(q.correct) - 1) |-> a[k + 1]],
     score |-> Cardinality({k \in 1..Len(q.correct) : a[k] = q.correct[k]}),
     totalQuestions |-> Len(q.correct)] :
      a \in { f \in [1..Len(q.correct) -> 0..(NumOptions - 1)] :
                 \A k \in 1..Len(q.correct) : f[k] \in Picks(q.correct[k]) } }

\* lines 98-118, without initialAttempt
SessionInitFresh ==
  /\ quiz \in Quizzes
  /\ attempts = <<>>
  /\ currentQuestionIndex = 0
  /\ selectedAnswers = Fill(Len(quiz.correct), Null)
  /\ answerStatuses = Fill(Len(quiz.correct), "unanswered")
  /\ isSubmitted = Fill(Len(quiz.correct), FALSE)
  /\ quizFinished = FALSE
  /\ finalAttempt = NoAttempt

\* lines 98-118, with initialAttempt = the latest Attempt of the quiz
SessionInitReview ==
  /\ quiz \in Quizzes
  /\ \E a \in EarlierAttempts(quiz) :
       /\ attempts = <<a>>
       /\ selectedAnswers = a.answers
       /\ answerStatuses = [k \in DOMAIN a.answers |->
                              IF a.answers[k] = Null THEN "unanswered"
                              ELSE StatusOf(a.answers[k], quiz.correct[k + 1])]
       /\ finalAttempt = a
  /\ currentQuestionIndex = 0
  /\ isSubmitted = Fill(Len(quiz.correct), TRUE)
  /\ quizFinished = TRUE

\* [quizId]/page.tsx line 187: the id of a quick quiz, `quick-quiz-<time>`,
\* which is the id of no stored Quiz (stored ids are 1, 2, ...)
QuickQuizId == 0
QuickQuizzes == { [id |-> QuickQuizId, correct |-> q.correct] : q \in Quizzes }

\* [quizId]/page.tsx line 284: <QuizInterface quiz={quickQuizData} />, which
\* has no initialAttempt
SessionInitQuick ==
  /\ quiz \in QuickQuizzes
  /\ attempts = <<>>
  /\ currentQuestionIndex = 0
  /\ selectedAnswers = Fill(Len(quiz.correct), Null)
  /\ answerStatuses = Fill(Len(quiz.correct), "unanswered")
  /\ isSubmitted = Fill(Len(quiz.correct), FALSE)
  /\ quizFinished = FALSE
  /\ finalAttempt = NoAttempt
  /\ isSubmittingQuiz = FALSE
  /\ elaboratedExplanations = Fill(Len(quiz.correct), NoText)
  /\ isElaborating = Fill(Len(quiz.correct), FALSE)
  /\ pendingSaves = <<>>
  /\ pendingElab = {}
  /\ sessionToast = NoToast
  /\ passAttempts = 0

SessionInit ==
  /\ (SessionInitFresh \/ SessionInitReview)
  /\ isSubmittingQuiz = FALSE
  /\ elaboratedExplanations = Fill(Len(quiz.correct), NoText)
  /\ isElaborating = Fill(Len(quiz.correct), FALSE)
  /\ pendingSaves = <<>>
  /\ pendingElab = {}
  /\ sessionToast = NoToast
  /\ passAttempts = 0

\* lines 128-134
handleOptionSelect ==
  /\ ~ShowsSummary
  /\ CanSelect(currentQuestionIndex)
  /\ \E optionIndex \in Picks(CorrectIndex(currentQuestionIndex)) :
       selectedAnswers' = [selectedAnswers EXCEPT ![currentQuestionIndex] = optionIndex]
  /\ UNCHANGED <<extraVars, curateVars, ingestVars, attempts, quiz, currentQuestionIndex, answerStatuses,
                 isSubmitted, quizFinished, finalAttempt, isSubmittingQuiz,
                 elaboratedExplanations, isElaborating, pendingSaves,
                 pendingElab, sessionToast, passAttempts>>

\* lines 136-140: finishQuiz up to its await
StartFinishStaleStatuses(finalAnswers, finalStatuses) ==
  /\ isSubmittingQuiz' = TRUE
  /\ pendingSaves' = Append(pendingSaves,
                            [quizId |-> quiz.id, answers |-> finalAnswers,
                             score |-> ScoreOf(answerStatuses),
                             totalQuestions |-> NumQuestions])
StartFinish(finalAnswers, finalStatuses) ==
  /\ isSubmittingQuiz' = TRUE
  /\ pendingSaves' = Append(pendingSaves,
                            [quizId |-> quiz.id, answers |-> finalAnswers,
                             score |-> ScoreOf(finalStatuses),
                             totalQuestions |-> NumQuestions])

\* lines 159-167: the rejection of a submit without a selection
SubmitRejected ==
  /\ ~ShowsSummary
  /\ ~isSubmitted[currentQuestionIndex]
  /\ ~isSubmittingQuiz
  /\ ~isElaborating[currentQuestionIndex]
  /\ ~HasSelection(currentQuestionIndex)
  /\ sessionToast' = "No answer selected"
  /\ UNCHANGED <<extraVars, curateVars, ingestVars, attempts, quiz, currentQuestionIndex, selectedAnswers,
                 answerStatuses, isSubmitted, quizFinished, finalAttempt,
                 isSubmittingQuiz, elaboratedExplanations, isElaborating,
                 pendingSaves, pendingElab, passAttempts>>

\* lines 159-182 with a selection
SubmitAccepted ==
  /\ ~ShowsSummary
  /\ ~isSubmitted[currentQuestionIndex]
  /\ ~isSubmittingQuiz
  /\ ~isElaborating[currentQuestionIndex]
  /\ HasSelection(currentQuestionIndex)
  /\ LET newIsSubmitted == [isSubmitted EXCEPT ![currentQuestionIndex] = TRUE]
         newAnswerStatuses ==
           [answerStatuses EXCEPT ![currentQuestionIndex] =
              StatusOf(selectedAnswers[currentQuestionIndex],
                       CorrectIndex(currentQuestionIndex))]
     IN /\ isSubmitted' = newIsSubmitted
        /\ answerStatuses' = newAnswerStatuses
        /\ IF AllSubmitted(newIsSubmitted)
             THEN StartFinish(selectedAnswers, newAnswerStatuses)
             ELSE UNCHANGED <<isSubmittingQuiz, pendingSaves>>
  /\ UNCHANGED <<extraVars, curateVars, ingestVars, attempts, quiz, currentQuestionIndex, selectedAnswers,
                 quizFinished, finalAttempt, elaboratedExplanations,
                 isElaborating, pendingElab, sessionToast, passAttempts>>

handleSubmitAnswer == SubmitRejected \/ SubmitAccepted

\* a Next button rendered on slots that are not submitted too
handleNextQuestionOnAnySlot ==
  /\ ~ShowsSummary
  /\ currentQuestionIndex < NumQuestions - 1
  /\ ~isSubmittingQuiz
  /\ ~isElaborating[currentQuestionIndex]
  /\ currentQuestionIndex' = currentQuestionIndex + 1
  /\ UNCHANGED <<extraVars, curateVars, ingestVars, attempts, quiz, selectedAnswers, answerStatuses, isSubmitted,
                 quizFinished, finalAttempt, isSubmittingQuiz,
                 elaboratedExplanations, isElaborating, pendingSaves,
                 pendingElab, sessionToast, passAttempts>>

\* lines 184-192; the button is rendered on a submitted slot that is not the last
handleNextQuestion ==
  /\ ~ShowsSummary
  /\ isSubmitted[currentQuestionIndex]
  /\ currentQuestionIndex < NumQuestions - 1
  /\ ~isSubmittingQuiz
  /\ ~isElaborating[currentQuestionIndex]
  /\ currentQuestionIndex' = currentQuestionIndex + 1
  /\ UNCHANGED <<extraVars, curateVars, ingestVars, attempts, quiz, selectedAnswers, answerStatuses, isSubmitted,
                 quizFinished, finalAttempt, isSubmittingQuiz,
                 elaboratedExplanations, isElaborating, pendingSaves,
                 pendingElab, sessionToast, passAttempts>>

\* lines 194-198
handlePrevQuestionWhileElaborating ==
  /\ ~ShowsSummary
  /\ currentQuestionIndex > 0
  /\ ~isSubmittingQuiz
  /\ currentQuestionIndex' = currentQuestionIndex - 1
  /\ UNCHANGED <<extraVars, curateVars, ingestVars, attempts, quiz, selectedAnswers, answerStatuses, isSubmitted,
                 quizFinished, finalAttempt, isSubmittingQuiz,
                 elaboratedExplanations, isElaborating, pendingSaves,
                 pendingElab, sessionToast, passAttempts>>
handlePrevQuestion ==
  /\ ~ShowsSummary
  /\ currentQuestionIndex > 0
  /\ ~isSubmittingQuiz
  /\ ~isElaborating[currentQuestionIndex]
  /\ currentQuestionIndex' = currentQuestionIndex - 1
  /\ UNCHANGED <<extraVars, curateVars, ingestVars, attempts, quiz, selectedAnswers, answerStatuses, isSubmitted,
                 quizFinished, finalAttempt, isSubmittingQuiz,
                 elaboratedExplanations, isElaborating, pendingSaves,
                 pendingElab, sessionToast, passAttempts>>

\* line 350: the Finish Quiz button, rendered on the submitted last slot
FinishButtonWhileSaving ==
  /\ ~ShowsSummary
  /\ isSubmitted[currentQuestionIndex]
  /\ currentQuestionIndex = NumQuestions - 1
  /\ Len(pendingSaves) < 2
  /\ ~isElaborating[currentQuestionIndex]
  /\ StartFinish(selectedAnswers, answerStatuses)
  /\ UNCHANGED <<extraVars, curateVars, ingestVars, attempts, quiz, currentQuestionIndex, selectedAnswers,
                 answerStatuses, isSubmitted, quizFinished, finalAttempt,
                 elaboratedExplanations, isElaborating, pendingElab,
                 sessionToast, passAttempts>>
FinishButton ==
  /\ ~ShowsSummary
  /\ isSubmitted[currentQuestionIndex]
  /\ currentQuestionIndex = NumQuestions - 1
  /\ ~isSubmittingQuiz
  /\ ~isElaborating[currentQuestionIndex]
  /\ StartFinish(selectedAnswers, answerStatuses)
  /\ UNCHANGED <<extraVars, curateVars, ingestVars, attempts, quiz, currentQuestionIndex, selectedAnswers,
                 answerStatuses, isSubmitted, quizFinished, finalAttempt,
                 elaboratedExplanations, isElaborating, pendingElab,
                 sessionToast, passAttempts>>

\* lines 140-146 and 154-156: saveQuizAttempt (quiz-store.ts 204-226) resolves
SaveAttemptDone ==
  /\ pendingSaves # <<>>
  /\ LET call == Head(pendingSaves)
         attempt == NewAttempt(call.quizId, call.answers, call.score,
                               call.totalQuestions)
     IN /\ attempts' = Append(attempts, attempt)
        /\ finalAttempt' = attempt
  /\ quizFinished' = TRUE
  /\ sessionToast' = "Quiz Finished!"
  /\ isSubmittingQuiz' = FALSE
  /\ pendingSaves' = Tail(pendingSaves)
  /\ passAttempts' = passAttempts + 1
  /\ UNCHANGED <<extraVars, curateVars, ingestVars, quiz, currentQuestionIndex, selectedAnswers, answerStatuses,
                 isSubmitted, elaboratedExplanations, isElaborating, pendingElab>>

\* lines 147-156: saveQuizAttempt rethrows the store's error
SaveAttemptFailsButFinishes ==
  /\ pendingSaves # <<>>
  /\ sessionToast' = "Error"
  /\ isSubmittingQuiz' = FALSE
  /\ pendingSaves' = Tail(pendingSaves)
  /\ quizFinished' = TRUE
  /\ UNCHANGED <<extraVars, curateVars, ingestVars, attempts, quiz, currentQuestionIndex, selectedAnswers,
                 answerStatuses, isSubmitted, finalAttempt,
                 elaboratedExplanations, isElaborating, pendingElab,
                 passAttempts>>
SaveAttemptFails ==
  /\ pendingSaves # <<>>
  /\ sessionToast' = "Error"
  /\ isSubmittingQuiz' = FALSE
  /\ pendingSaves' = Tail(pendingSaves)
  /\ UNCHANGED <<extraVars, curateVars, ingestVars, attempts, quiz, currentQuestionIndex, selectedAnswers,
                 answerStatuses, isSubmitted, quizFinished, finalAttempt,
                 elaboratedExplanations, isElaborating, pendingElab,
                 passAttempts>>

\* lines 200-209; the button lives in the summary view
handleRetakeQuizKeepsCache ==
  /\ ShowsSummary
  /\ Len(attempts) < MaxAttempts
  /\ currentQuestionIndex' = 0
  /\ selectedAnswers' = Fill(NumQuestions, Null)
  /\ answerStatuses' = Fill(NumQuestions, "unanswered")
  /\ isSubmitted' = Fill(NumQuestions, FALSE)
  /\ quizFinished' = FALSE
  /\ finalAttempt' = NoAttempt
  /\ isElaborating' = Fill(NumQuestions, FALSE)
  /\ passAttempts' = 0
  /\ UNCHANGED <<extraVars, curateVars, ingestVars, attempts, quiz, isSubmittingQuiz, pendingSaves, pendingElab,
                 sessionToast, elaboratedExplanations>>
handleRetakeQuiz ==
  /\ ShowsSummary
  /\ Len(attempts) < MaxAttempts
  /\ currentQuestionIndex' = 0
  /\ selectedAnswers' = Fill(NumQuestions, Null)
  /\ answerStatuses' = Fill(NumQuestions, "unanswered")
  /\ isSubmitted' = Fill(NumQuestions, FALSE)
  /\ quizFinished' = FALSE
  /\ finalAttempt' = NoAttempt
  /\ elaboratedExplanations' = Fill(NumQuestions, NoText)
  /\ isElaborating' = Fill(NumQuestions, FALSE)
  /\ passAttempts' = 0
  /\ UNCHANGED <<extraVars, curateVars, ingestVars, attempts, quiz, isSubmittingQuiz, pendingSaves, pendingElab,
                 sessionToast>>

\* an Elaborate button that stays enabled while the Attempt is saved
StartElaborateWhileSaving ==
  /\ ~ShowsSummary
  /\ isSubmitted[currentQuestionIndex]
  /\ ~isElaborating[currentQuestionIndex]
  /\ Elaborations(NumQuestions) < MaxElaborations
  /\ isElaborating' = [isElaborating EXCEPT ![currentQuestionIndex] = TRUE]
  /\ pendingElab' = pendingElab \cup {currentQuestionIndex}
  /\ UNCHANGED <<extraVars, curateVars, ingestVars, attempts, quiz, currentQuestionIndex, selectedAnswers,
                 answerStatuses, isSubmitted, quizFinished, finalAttempt,
                 isSubmittingQuiz, elaboratedExplanations, pendingSaves,
                 sessionToast, passAttempts>>

\* an Elaborate button rendered on every slot
StartElaborateOnAnySlot ==
  /\ ~ShowsSummary
  /\ ~isElaborating[currentQuestionIndex]
  /\ ~isSubmittingQuiz
  /\ Elaborations(NumQuestions) < MaxElaborations
  /\ isElaborating' = [isElaborating EXCEPT ![currentQuestionIndex] = TRUE]
  /\ pendingElab' = pendingElab \cup {currentQuestionIndex}
  /\ UNCHANGED <<extraVars, curateVars, ingestVars, attempts, quiz, currentQuestionIndex, selectedAnswers,
                 answerStatuses, isSubmitted, quizFinished, finalAttempt,
                 isSubmittingQuiz, elaboratedExplanations, pendingSaves,
                 sessionToast, passAttempts>>

\* lines 211-223: handleElaborateExplanation up to its await; the button is
\* rendered on a submitted slot
StartElaborate ==
  /\ ~ShowsSummary
  /\ isSubmitted[currentQuestionIndex]
  /\ ~isElaborating[currentQuestionIndex]
  /\ ~isSubmittingQuiz
  /\ Elaborations(NumQuestions) < MaxElaborations
  /\ isElaborating' = [isElaborating EXCEPT ![currentQuestionIndex] = TRUE]
  /\ pendingElab' = pendingElab \cup {currentQuestionIndex}
  /\ UNCHANGED <<extraVars, curateVars, ingestVars, attempts, quiz, currentQuestionIndex, selectedAnswers,
                 answerStatuses, isSubmitted, quizFinished, finalAttempt,
                 isSubmittingQuiz, elaboratedExplanations, pendingSaves,
                 sessionToast, passAttempts>>

\* lines 223-228 and 236-238: the flow returns a text, either the model's or
\* the flow's fallback text (elaborate-mcq-explanation.ts 81-89)
ElaborateDone ==
  /\ \E idx \in pendingElab :
       /\ \E kind \in {"elaborated", "fallback"} :
            elaboratedExplanations' =
              [elaboratedExplanations EXCEPT ![idx] =
                 [kind |-> kind, v |-> elaboratedExplanations[idx].v + 1]]
       /\ isElaborating' = [isElaborating EXCEPT ![idx] = FALSE]
       /\ pendingElab' = pendingElab \ {idx}
  /\ sessionToast' = "Explanation Elaborated"
  /\ UNCHANGED <<extraVars, curateVars, ingestVars, attempts, quiz, currentQuestionIndex, selectedAnswers,
                 answerStatuses, isSubmitted, quizFinished, finalAttempt,
                 isSubmittingQuiz, pendingSaves, passAttempts>>

\* lines 229-238: the call rejects
ElaborateFails ==
  /\ \E idx \in pendingElab :
       /\ isElaborating' = [isElaborating EXCEPT ![idx] = FALSE]
       /\ pendingElab' = pendingElab \ {idx}
  /\ sessionToast' = "Elaboration Failed"
  /\ UNCHANGED <<extraVars, curateVars, ingestVars, attempts, quiz, currentQuestionIndex, selectedAnswers,
                 answerStatuses, isSubmitted, quizFinished, finalAttempt,
                 isSubmittingQuiz, elaboratedExplanations, pendingSaves,
                 passAttempts>>

SessionNext ==
  \/ handleOptionSelect
  \/ SubmitRejected
  \/ SubmitAccepted
  \/ handleNextQuestion
  \/ handlePrevQuestion
  \/ FinishButton
  \/ SaveAttemptDone
  \/ SaveAttemptFails
  \/ handleRetakeQuiz
  \/ StartElaborate
  \/ ElaborateDone
  \/ ElaborateFails

\* ------------------------------------------- Best-Subset Curator, quick quiz
\* An Mcq of the pool: its question and explanation texts ("" when empty);
\* the options and the correct index do not take part in the selection.
PoolMcq(question, explanation) == [question |-> question, explanation |-> explanation]
PoolMcqs == {PoolMcq("q1", "e1"), PoolMcq("q2", "e2"), PoolMcq("q3", "")}
Pools == UNION {[1..n -> PoolMcqs] : n \in 0..MaxPool}

NoInput == [allMcqs |-> <<>>, desiredCount |-> 0]
NoQuickQuiz == <<>>

\* what the external call resolved with: nothing yet, no output, an output
\* without an index array, or an output with selectedIndices
NoOutput == [kind |-> "pending", selectedIndices |-> <<>>]
NullOutput == [kind |-> "null", selectedIndices |-> <<>>]
NoArrayOutput == [kind |-> "noArray", selectedIndices |-> <<>>]
Indices(list) == [kind |-> "indices", selectedIndices |-> list]
\* the lists of indices the external call can return for a list of n Mcqs:
\* in range, and the out-of-range n
IndexLists(n) == UNION {[1..k -> 0..n] : k \in 0..MaxIndices}
Outputs(n) == {NullOutput, NoArrayOutput} \cup {Indices(l) : l \in IndexLists(n)}

Min(a, b) == IF a <= b THEN a ELSE b
\* array.slice(0, n)
Slice(s, n) == SubSeq(s, 1, Min(n, Len(s)))

\* lines 145-150: the filter of generateBestMcqs
IsValidMcq(mcq) == mcq.question # "" /\ mcq.explanation # ""
ValidAllMcqsUnfiltered(pool) == pool
ValidAllMcqs(pool) == SelectSeq(pool, IsValidMcq)

\* lines 152-163: the external selection is needed only for more valid Mcqs
\* than desired
NeedsCurator(req) == Len(ValidAllMcqs(req.allMcqs)) > req.desiredCount

\* line 163: the input generateBestMcqsFlow and its prompt are given
FlowInput(req) ==
  [allMcqs |-> ValidAllMcqs(req.allMcqs),
   desiredCount |-> Min(Len(ValidAllMcqs(req.allMcqs)), req.desiredCount)]

\* lines 211-213: the defensive check of generateBestMcqsFlow
FlowReturnsAll(flowIn) == Len(flowIn.allMcqs) <= flowIn.desiredCount

\* lines 218-225: the Mcqs at the indices that are in range, in list order
RECURSIVE PickInRange(_, _)
PickInRange(list, allMcqsOfFlow) ==
  IF list = <<>> THEN <<>>
  ELSE LET index == Head(list)
           rest == PickInRange(Tail(list), allMcqsOfFlow)
       IN IF index >= 0 /\ index < Len(allMcqsOfFlow)
            THEN <<allMcqsOfFlow[index + 1]>> \o rest
            ELSE rest

\* line 227
FromIndicesUntruncated(list, flowIn) == PickInRange(list, flowIn.allMcqs)
FromIndices(list, flowIn) ==
  Slice(PickInRange(list, flowIn.allMcqs), flowIn.desiredCount)

\* line 232: [...allMcqs].sort(() => 0.5 - Math.random()) is some rearrangement
ShufflesWithRepeats(s) ==
  { [k \in 1..Len(s) |-> s[p[k]]] : p \in [1..Len(s) -> 1..Len(s)] }
Shuffles(s) ==
  { [k \in 1..Len(s) |-> s[p[k]]] :
      p \in { f \in [1..Len(s) -> 1..Len(s)] :
                \A a, b \in 1..Len(s) : a # b => f[a] # f[b] } }

\* lines 217-233: what generateBestMcqsFlow can return for an output
FlowResults(output, flowIn) ==
  IF output.kind = "indices"
    THEN {FromIndices(output.selectedIndices, flowIn)}
    ELSE {Slice(sh, flowIn.desiredCount) : sh \in Shuffles(flowIn.allMcqs)}

\* [quizId]/page.tsx lines 90-98, with the pool loaded (lines 133-152)
CurateInit ==
  /\ allMcqsForQuickQuiz \in Pools
  /\ quickQuizData = NoQuickQuiz
  /\ quickQuizError = "none"
  /\ isGeneratingQuickQuiz = FALSE
  /\ quickToast = NoToast
  /\ cpc = "idle"
  /\ viaPage = FALSE
  /\ input = NoInput
  /\ promptCalls = 0
  /\ indicesOutput = NoOutput
  /\ selectedMcqs = <<>>

\* part_001 lines 141-163 and 209-215: generateBestMcqs up to the await of
\* the prompt; with no more valid Mcqs than desired it returns them without
\* a call
CallGenerateBestMcqs(req) ==
  /\ input' = req
  /\ IF NeedsCurator(req) /\ ~FlowReturnsAll(FlowInput(req))
       THEN /\ cpc' = "prompt"
            /\ promptCalls' = promptCalls + 1
            /\ selectedMcqs' = selectedMcqs
       ELSE /\ cpc' = "returned"
            /\ promptCalls' = promptCalls
            /\ selectedMcqs' = ValidAllMcqs(req.allMcqs)
  /\ indicesOutput' = indicesOutput

\* the server action called with any desiredCount > 0
generateBestMcqs ==
  /\ cpc = "idle"
  /\ \E desiredCount \in 1..MaxPool :
       CallGenerateBestMcqs([allMcqs |-> allMcqsForQuickQuiz,
                             desiredCount |-> desiredCount])
  /\ viaPage' = FALSE
  /\ UNCHANGED <<extraVars, ingestVars, sessionVars, allMcqsForQuickQuiz, quickQuizData,
                 quickQuizError, isGeneratingQuickQuiz, quickToast>>

\* [quizId]/page.tsx lines 162-170
QuickQuizRefused ==
  /\ cpc = "idle"
  /\ Len(allMcqsForQuickQuiz) < QuickQuizDesiredCount
  /\ quickQuizError' = "Quick Quiz requires more questions"
  /\ quickToast' = "Quick Quiz Condition Not Met"
  /\ viaPage' = TRUE
  /\ cpc' = "shown"
  /\ UNCHANGED <<extraVars, ingestVars, sessionVars, allMcqsForQuickQuiz, quickQuizData,
                 isGeneratingQuickQuiz, input, promptCalls, indicesOutput,
                 selectedMcqs>>

\* [quizId]/page.tsx lines 172-178
handleGenerateQuickQuiz ==
  /\ cpc = "idle"
  /\ ~(Len(allMcqsForQuickQuiz) < QuickQuizDesiredCount)
  /\ isGeneratingQuickQuiz' = TRUE
  /\ quickQuizError' = "none"
  /\ quickQuizData' = NoQuickQuiz
  /\ quickToast' = "Generating Quick Quiz"
  /\ viaPage' = TRUE
  /\ CallGenerateBestMcqs([allMcqs |-> allMcqsForQuickQuiz,
                           desiredCount |-> QuickQuizDesiredCount])
  /\ UNCHANGED <<extraVars, ingestVars, sessionVars, allMcqsForQuickQuiz>>

\* part_001 lines 215-234: the prompt resolves and the flow returns
CuratorAnswers ==
  /\ cpc = "prompt"
  /\ \E output \in Outputs(Len(FlowInput(input).allMcqs)) :
       /\ indicesOutput' = output
       /\ \E result \in FlowResults(output, FlowInput(input)) :
            selectedMcqs' = result
  /\ cpc' = "returned"
  /\ UNCHANGED <<extraVars, ingestVars, sessionVars, allMcqsForQuickQuiz, quickQuizData,
                 quickQuizError, isGeneratingQuickQuiz, quickToast, viaPage,
                 input, promptCalls>>

\* part_001 line 215: the prompt rejects; neither the flow nor
\* generateBestMcqs catches
CuratorThrows ==
  /\ cpc = "prompt"
  /\ cpc' = "threw"
  /\ UNCHANGED <<extraVars, ingestVars, sessionVars, allMcqsForQuickQuiz, quickQuizData,
                 quickQuizError, isGeneratingQuickQuiz, quickToast, viaPage,
                 input, promptCalls, indicesOutput, selectedMcqs>>

\* [quizId]/page.tsx lines 180-184 and 203-205
QuickQuizEmpty ==
  /\ cpc = "returned"
  /\ viaPage
  /\ Len(selectedMcqs) = 0
  /\ quickQuizError' = "AI could not select any questions"
  /\ isGeneratingQuickQuiz' = FALSE
  /\ cpc' = "shown"
  /\ UNCHANGED <<extraVars, ingestVars, sessionVars, allMcqsForQuickQuiz, quickQuizData,
                 quickToast, viaPage, input, promptCalls, indicesOutput,
                 selectedMcqs>>

\* [quizId]/page.tsx lines 186-193 and 203-205
QuickQuizReady ==
  /\ cpc = "returned"
  /\ viaPage
  /\ Len(selectedMcqs) # 0
  /\ quickQuizData' = selectedMcqs
  /\ quickToast' = "Quick Quiz Ready!"
  /\ isGeneratingQuickQuiz' = FALSE
  /\ cpc' = "shown"
  /\ UNCHANGED <<extraVars, ingestVars, sessionVars, allMcqsForQuickQuiz, quickQuizError,
                 viaPage, input, promptCalls, indicesOutput, selectedMcqs>>

\* [quizId]/page.tsx lines 195-205
QuickQuizFailed ==
  /\ cpc = "threw"
  /\ viaPage
  /\ quickQuizError' = "Failed to generate quick quiz"
  /\ quickToast' = "Quick Quiz Generation Failed"
  /\ isGeneratingQuickQuiz' = FALSE
  /\ cpc' = "shown"
  /\ UNCHANGED <<extraVars, ingestVars, sessionVars, allMcqsForQuickQuiz, quickQuizData,
                 viaPage, input, promptCalls, indicesOutput, selectedMcqs>>

CurateNext ==
  \/ generateBestMcqs
  \/ QuickQuizRefused
  \/ handleGenerateQuickQuiz
  \/ CuratorAnswers
  \/ CuratorThrows
  \/ QuickQuizEmpty
  \/ QuickQuizReady
  \/ QuickQuizFailed

\* ------------------------------------------------------- quiz-store.ts
StoredQuiz(id) == [id |-> id, mcqs |-> <<Mcq(id, 1)>>, notes |-> <<>>]
StoredAttempt(id, quizId) ==
  [id |-> id, quizId |-> quizId, answers |-> <<>>, score |-> 0, totalQuestions |-> 1]

QuizIds(qs) == {qs[k].id : k \in 1..Len(qs)}
AttemptIds(as) == {as[k].id : k \in 1..Len(as)}

\* the documents of a collection in descending order of creation
RECURSIVE Reverse(_)
Reverse(seq) == IF seq = <<>> THEN <<>> ELSE Append(Reverse(Tail(seq)), Head(seq))

\* what a function gives its caller: it returns an array, an object or
\* undefined, or it throws
ReturnedArray(items) == [outcome |-> "returned", shape |-> "array", items |-> items]
ReturnedObject(item) == [outcome |-> "returned", shape |-> "object", items |-> <<item>>]
ReturnedUndefined == [outcome |-> "returned", shape |-> "undefined", items |-> <<>>]
ThrewError == [outcome |-> "threw", shape |-> "undefined", items |-> <<>>]
NoResult == [outcome |-> "none", shape |-> "undefined", items |-> <<>>]
NoOp == [name |-> "none", id |-> 0]
NoStore == [quizzes |-> <<>>, attempts |-> <<>>]

ArrayReads == {"getQuizzes", "getAllMcqsFromAllQuizzes", "getQuizAttempts",
               "getAttemptsForQuiz"}
ObjectReads == {"getQuizById", "getLatestAttemptForQuiz"}
ReadsById == {"getAttemptsForQuiz", "getQuizById", "getLatestAttemptForQuiz"}

RECURSIVE FlattenMcqs(_)
FlattenMcqs(qs) == IF qs = <<>> THEN <<>> ELSE Head(qs).mcqs \o FlattenMcqs(Tail(qs))

AttemptsOf(id) == SelectSeq(attempts, LAMBDA a : a.quizId = id)

\* the try blocks of the read functions (lines 47-51, 70-84, 92-98, 160-164,
\* 172-176, 184-197)
ReadValue(op) ==
  CASE op.name = "getQuizzes" -> ReturnedArray(Reverse(quizzes))
    [] op.name = "getAllMcqsFromAllQuizzes" ->
         ReturnedArray(FlattenMcqs(Reverse(quizzes)))
    [] op.name = "getQuizAttempts" -> ReturnedArray(Reverse(attempts))
    [] op.name = "getAttemptsForQuiz" -> ReturnedArray(Reverse(AttemptsOf(op.id)))
    [] op.name = "getQuizById" ->
         IF \E k \in 1..Len(quizzes) : quizzes[k].id = op.id
           THEN ReturnedObject(CHOOSE q \in {quizzes[k] : k \in 1..Len(quizzes)} :
                                 q.id = op.id)
           ELSE ReturnedUndefined
    [] op.name = "getLatestAttemptForQuiz" ->
         IF AttemptsOf(op.id) # <<>>
           THEN ReturnedObject(AttemptsOf(op.id)[Len(AttemptsOf(op.id))])
           ELSE ReturnedUndefined

\* the catch blocks of the read functions (lines 52-55, 85-88, 99-102,
\* 165-168, 177-180, 198-201)
OnReadError(op) ==
  IF op.name \in ArrayReads THEN ReturnedArray(<<>>) ELSE ReturnedUndefined

\* the collections as they can be: quizzes in creation order, attempts of
\* stored quizzes in creation order
Stores ==
  { [quizzes |-> [k \in 1..n |-> StoredQuiz(k)],
     attempts |-> [k \in 1..m |-> StoredAttempt(k, owner[k])]] :
      n \in 0..MaxStoredQuizzes, m \in 0..MaxStoredAttempts,
      owner \in [1..MaxStoredAttempts -> 1..MaxStoredQuizzes] }

StoreInit ==
  /\ \E st \in { x \in Stores : \A k \in 1..Len(x.attempts) :
                                  x.attempts[k].quizId \in QuizIds(x.quizzes) } :
       /\ quizzes = st.quizzes
       /\ attempts = st.attempts
  /\ storePc = "idle"
  /\ storeOp = NoOp
  /\ storeFailed = FALSE
  /\ storeResult = NoResult
  /\ delBatch = {}
  /\ storeBefore = NoStore
  /\ otherSaves = 0

\* what the form and the session hold besides the two collections
ingestRest == <<pc, numPages, i, allMcqs, allNotes, pagesSkipped, pageErrors,
                closureErrors, progress, isProcessing, outstanding, genCalls,
                genLog, saveQuizCalls, toastTitle, routerPath>>
sessionRest == <<quiz, currentQuestionIndex, selectedAnswers,
                 answerStatuses, isSubmitted, quizFinished, finalAttempt,
                 isSubmittingQuiz, elaboratedExplanations, isElaborating,
                 pendingSaves, pendingElab, sessionToast, passAttempts>>
storeRest == <<classVars, curateVars, sessionRest, ingestRest>>

\* a component calls one of the read functions
ReadCall ==
  /\ storePc = "idle"
  /\ \E name \in ArrayReads \cup ObjectReads :
       \E id \in (IF name \in ReadsById THEN 1..MaxStoredQuizzes ELSE {0}) :
         storeOp' = [name |-> name, id |-> id]
  /\ storePc' = "read"
  /\ storeBefore' = [quizzes |-> quizzes, attempts |-> attempts]
  /\ UNCHANGED <<storeRest, quizzes, attempts, storeFailed, storeResult,
                 delBatch, otherSaves>>

\* getDocs / getDoc resolves and the function returns what it read
ReadResolves ==
  /\ storePc = "read"
  /\ storeResult' = ReadValue(storeOp)
  /\ storePc' = "done"
  /\ UNCHANGED <<storeRest, quizzes, attempts, storeOp, storeFailed, delBatch,
                 storeBefore, otherSaves>>

\* getDocs / getDoc rejects and the function's catch block runs
ReadTransportError ==
  /\ storePc = "read"
  /\ storeFailed' = TRUE
  /\ storeResult' = OnReadError(storeOp)
  /\ storePc' = "done"
  /\ UNCHANGED <<storeRest, quizzes, attempts, storeOp, delBatch, storeBefore,
                 otherSaves>>

\* quiz-store.ts 138-143: deleteQuiz(id) opens a batch, puts the Quiz's
\* deletion in it and queries the Attempts of the Quiz
deleteQuiz ==
  /\ storePc = "idle"
  /\ \E id \in 1..MaxStoredQuizzes : storeOp' = [name |-> "deleteQuiz", id |-> id]
  /\ storePc' = "deleteQuery"
  /\ storeBefore' = [quizzes |-> quizzes, attempts |-> attempts]
  /\ UNCHANGED <<storeRest, quizzes, attempts, storeFailed, storeResult,
                 delBatch, otherSaves>>

\* lines 143-147: the query resolves; each Attempt it found goes in the batch
DeleteQueryResolves ==
  /\ storePc = "deleteQuery"
  /\ delBatch' = AttemptIds(AttemptsOf(storeOp.id))
  /\ storePc' = "deleteCommit"
  /\ UNCHANGED <<storeRest, quizzes, attempts, storeOp, storeFailed, storeResult,
                 storeBefore, otherSaves>>

\* lines 151-154: the query rejects; deleteQuiz rethrows
DeleteQueryFails ==
  /\ storePc = "deleteQuery"
  /\ storeFailed' = TRUE
  /\ storeResult' = ThrewError
  /\ storePc' = "done"
  /\ UNCHANGED <<storeRest, quizzes, attempts, storeOp, delBatch, storeBefore,
                 otherSaves>>

\* lines 149-150: batch.commit() resolves: the Quiz and the batched Attempts
\* are deleted together
DeleteCommits ==
  /\ storePc = "deleteCommit"
  /\ quizzes' = SelectSeq(quizzes, LAMBDA q : q.id # storeOp.id)
  /\ attempts' = SelectSeq(attempts, LAMBDA a : a.id \notin delBatch)
  /\ storeResult' = ReturnedUndefined
  /\ storePc' = "done"
  /\ UNCHANGED <<storeRest, storeOp, storeFailed, delBatch, storeBefore,
                 otherSaves>>

\* lines 151-154: batch.commit() rejects: nothing is deleted, deleteQuiz
\* rethrows
DeleteCommitFails ==
  /\ storePc = "deleteCommit"
  /\ storeFailed' = TRUE
  /\ storeResult' = ThrewError
  /\ storePc' = "done"
  /\ UNCHANGED <<storeRest, quizzes, attempts, storeOp, delBatch, storeBefore,
                 otherSaves>>

\* quiz-store.ts 204-226: a session on a stored Quiz, in this tab or another
\* client of the same collections, finishes and its saveQuizAttempt resolves
OtherSessionSavesAttempt ==
  /\ otherSaves < MaxOtherSaves
  /\ \E q \in QuizIds(quizzes) :
       attempts' = Append(attempts,
                          StoredAttempt(MaxStoredAttempts + otherSaves + 1, q))
  /\ otherSaves' = otherSaves + 1
  /\ UNCHANGED <<storeRest, quizzes, storePc, storeOp, storeFailed, storeResult,
                 delBatch, storeBefore>>

StoreNext ==
  \/ ReadCall
  \/ ReadResolves
  \/ ReadTransportError
  \/ deleteQuiz
  \/ DeleteQueryResolves
  \/ DeleteQueryFails
  \/ DeleteCommits
  \/ DeleteCommitFails
  \/ OtherSessionSavesAttempt

\* ------------------------------------------------ the page classification
\* The page texts the classification is applied to: lengths on both sides of
\* every threshold, with or without a marker, starting or not with the title
\* "table of contents" or with a chapter heading.
TextLengths == {0, 17, 50, 149, 150, 166, 167, 399, 400, 599, 600, 2000}
ClassifierTexts ==
  { t \in { Text(len, contains, startsLen, chapter) :
              len \in TextLengths, contains \in BOOLEAN,
              startsLen \in {0, 17}, chapter \in BOOLEAN } :
      /\ (t.len = 0 => ~t.contains /\ ~t.chapter)
      /\ (t.startsLen > 0 => t.contains /\ ~t.chapter)
      /\ t.startsLen <= t.len }

NoClsInput == [text |-> Text(0, FALSE, 0, FALSE), pageNumber |-> 0, totalPages |-> 0]
NoClsOutcome == [class |-> "none", markerRule |-> FALSE]

\* lines 412-436 applied to page pageNumber of a document of totalPages pages
ClassInit ==
  /\ clsPc = "idle"
  /\ \E totalPages \in 1..MaxTotalPages : \E pageNumber \in 1..totalPages :
       \E text \in ClassifierTexts :
         clsInput = [text |-> text, pageNumber |-> pageNumber,
                     totalPages |-> totalPages]
  /\ clsOutcome = NoClsOutcome

ClsOutcome(in) ==
  [class |-> Classify(in.text, in.pageNumber, in.totalPages),
   markerRule |-> MarkerRule(in.text, in.pageNumber, in.totalPages)]

\* lines 412-436: one of the three `continue` branches is taken
PageSkipped ==
  /\ clsPc = "idle"
  /\ ClsOutcome(clsInput).class # "content"
  /\ clsOutcome' = ClsOutcome(clsInput)
  /\ clsPc' = "done"
  /\ UNCHANGED <<ingestVars, sessionVars, curateVars, storeVars, clsInput>>

\* lines 438-445: the page text is given to generateMcqsForPage
PageReachesGenerator ==
  /\ clsPc = "idle"
  /\ ClsOutcome(clsInput).class = "content"
  /\ clsOutcome' = ClsOutcome(clsInput)
  /\ clsPc' = "done"
  /\ UNCHANGED <<ingestVars, sessionVars, curateVars, storeVars, clsInput>>

ClassNext ==
  \/ PageSkipped
  \/ PageReachesGenerator

\* -------------------------------------------------------- specifications
\* The session is idle while a document is ingested, and the other way round.
NoSession ==
  /\ quiz = [id |-> 1, correct |-> <<0>>]
  /\ currentQuestionIndex = 0
  /\ selectedAnswers = Fill(1, Null)
  /\ answerStatuses = Fill(1, "unanswered")
  /\ isSubmitted = Fill(1, FALSE)
  /\ quizFinished = FALSE
  /\ finalAttempt = NoAttempt
  /\ isSubmittingQuiz = FALSE
  /\ elaboratedExplanations = Fill(1, NoText)
  /\ isElaborating = Fill(1, FALSE)
  /\ pendingSaves = <<>>
  /\ pendingElab = {}
  /\ sessionToast = NoToast
  /\ passAttempts = 0

SessionIdle == NoSession /\ attempts = <<>>

\* No quick quiz is requested while a document is ingested or a quiz is taken.
CurateIdle ==
  /\ allMcqsForQuickQuiz = <<>>
  /\ quickQuizData = NoQuickQuiz
  /\ quickQuizError = "none"
  /\ isGeneratingQuickQuiz = FALSE
  /\ quickToast = NoToast
  /\ cpc = "idle"
  /\ viaPage = FALSE
  /\ input = NoInput
  /\ promptCalls = 0
  /\ indicesOutput = NoOutput
  /\ selectedMcqs = <<>>

ClassIdle ==
  /\ clsPc = "idle"
  /\ clsInput = NoClsInput
  /\ clsOutcome = NoClsOutcome

StoreIdle ==
  /\ storePc = "idle"
  /\ storeOp = NoOp
  /\ storeFailed = FALSE
  /\ storeResult = NoResult
  /\ delBatch = {}
  /\ storeBefore = NoStore
  /\ otherSaves = 0

ExtraIdle == ClassIdle /\ StoreIdle

InitIngest == IngestInit /\ SessionIdle /\ CurateIdle /\ ExtraIdle
SpecIngest == InitIngest /\ [][IngestNext]_vars

\* a session on the stored Quiz 1
InitSession ==
  SessionInit /\ FormInit /\ quizzes = <<StoredQuiz(1)>> /\ CurateIdle /\ ExtraIdle
SpecSession == InitSession /\ [][SessionNext]_vars

InitCurate == CurateInit /\ IngestInit /\ SessionIdle /\ ExtraIdle
SpecCurate == InitCurate /\ [][CurateNext]_vars

InitClassify == ClassInit /\ IngestInit /\ SessionIdle /\ CurateIdle /\ StoreIdle
SpecClassify == InitClassify /\ [][ClassNext]_vars

\* The quiz page of the stored Quiz 1: the session of its Take Quiz tab, or
\* the session of its Quick Quiz tab once a quick quiz is ready.
InitQuizPage ==
  /\ (SessionInit \/ SessionInitQuick)
  /\ FormInit
  /\ quizzes = <<StoredQuiz(1)>>
  /\ CurateIdle
  /\ ExtraIdle
SpecQuizPage == InitQuizPage /\ [][SessionNext]_vars

InitStore == StoreInit /\ FormInit /\ NoSession /\ CurateIdle /\ ClassIdle
SpecStore == InitStore /\ [][StoreNext]_vars

\* ------------------------------------------------------------- ingestion claims
\* what the generator's answers say about a page, read from genLog alone
Yielded(p) == genLog[p].kind = "result" /\ genLog[p].n > 0
Succeeded(p) == genLog[p].kind = "result" /\ genLog[p].n = BatchSize
FailedGeneration(p) ==
  genLog[p].kind = "throw" \/ (genLog[p].kind = "result" /\ genLog[p].n = 0)

\* the batches of the pages 1..n that yielded Mcqs, concatenated in page order
RECURSIVE AcceptedUpTo(_)
AcceptedUpTo(n) ==
  IF n = 0 THEN <<>>
  ELSE AcceptedUpTo(n - 1) \o (IF Yielded(n) THEN Batch(n, genLog[n].n) ELSE <<>>)

LoopVisitedLastPage == numPages > 0 /\ i = numPages + 1
PageOrdered(mcqs) ==
  \A a, b \in 1..Len(mcqs) : a < b => mcqs[a][1] <= mcqs[b][1]
ErrorsNotAboutNotes == SelectSeq(pageErrors, LAMBDA e : e.kind # "noNotes")

\* C1: nothing is persisted before the page loop has visited the last page;
\* saveQuiz is called at most once; the Quiz it stores holds exactly the
\* batches of the pages that yielded Mcqs, concatenated in page order.
C1_NothingSavedBeforeLoopEnds ==
  /\ saveQuizCalls <= 1
  /\ Len(quizzes) <= saveQuizCalls
  /\ (saveQuizCalls > 0 => LoopVisitedLastPage)
  /\ (quizzes # <<>> => quizzes[1].mcqs = AcceptedUpTo(numPages))

C1_Witness ==
  /\ Len(quizzes) = 1
  /\ numPages = 3
  /\ Yielded(1) /\ FailedGeneration(2) /\ Yielded(3)

\* C2: when every page of an N-page document reaches the generator and every
\* call returns 5 Mcqs, the loop ends with 5*N Mcqs ordered by page, and that
\* list is what the persisted Quiz holds.
AllPagesSucceeded == numPages > 0 /\ \A p \in 1..numPages : Succeeded(p)

C2_AllPagesGiveFiveEach ==
  AllPagesSucceeded =>
    /\ Len(allMcqs) = BatchSize * numPages
    /\ PageOrdered(allMcqs)
    /\ \A p \in 1..numPages : \A k \in 1..BatchSize :
         allMcqs[(p - 1) * BatchSize + k] = Mcq(p, k)
    /\ (pc = "finalize" => ShouldSave(allMcqs))
    /\ (pc = "done" /\ toastTitle # "Error" =>
          Len(quizzes) = 1 /\ quizzes[1].mcqs = allMcqs)

C2_Witness ==
  /\ AllPagesSucceeded
  /\ numPages = 3
  /\ Len(quizzes) = 1
  /\ Len(quizzes[1].mcqs) = 15

\* exactly page k failed generation, every other page returned its 5 Mcqs
OnlyPageFailed(k) ==
  /\ k \in 1..numPages
  /\ FailedGeneration(k)
  /\ \A p \in (1..numPages) \ {k} : Succeeded(p)

SomePageYielded == \E p \in 1..numPages : Yielded(p)

C4_SavedIffSomePageYielded ==
  /\ (saveQuizCalls > 0 => SomePageYielded)
  /\ (pc \in {"save", "done"} /\ LoopVisitedLastPage /\ SomePageYielded =>
        saveQuizCalls = 1)
  /\ (pc = "done" /\ LoopVisitedLastPage /\ toastTitle # "Error" =>
        (quizzes # <<>> <=> SomePageYielded))
  /\ (pc = "done" /\ LoopVisitedLastPage /\ ~SomePageYielded =>
        saveQuizCalls = 0 /\ quizzes = <<>> /\ routerPath = 0
        /\ toastTitle = "Generation Failed")

C4_Witness ==
  /\ pc = "done"
  /\ numPages = 3
  /\ LoopVisitedLastPage
  /\ toastTitle = "Generation Failed"
  /\ pagesSkipped = 1
  /\ \E p \in 1..numPages : genLog[p].kind = "throw"
  /\ \E p \in 1..numPages : genLog[p] = Returned(0, TRUE)

\* C5 as claimed: an answer that does not hold exactly 5 Mcqs is a page
\* failure: none of its Mcqs is kept, a page-error entry other than the
\* notes entry is recorded for the page, and the page is not called again.
C5_WrongSizedBatchIsAFailure ==
  \A p \in 1..MaxPages :
    genLog[p].kind = "result" /\ genLog[p].n # BatchSize =>
      /\ \A j \in 1..Len(allMcqs) : allMcqs[j][1] # p
      /\ \E j \in 1..Len(pageErrors) :
           pageErrors[j].page = p /\ pageErrors[j].kind # "noNotes"
      /\ Cardinality({j \in 1..Len(genCalls) : genCalls[j] = p}) = 1

\* C6: at most one generator call is outstanding; calls are issued in
\* strictly increasing page order, each page at most once; every call but
\* the one outstanding has resolved.
C6_OneGeneratorCallAtATime ==
  /\ Cardinality(outstanding) <= 1
  /\ \A a, b \in 1..Len(genCalls) : a < b => genCalls[a] < genCalls[b]
  /\ \A a \in 1..Len(genCalls) :
       IF genCalls[a] \in outstanding
         THEN a = Len(genCalls) /\ genLog[genCalls[a]] = NoAnswer
         ELSE genLog[genCalls[a]] # NoAnswer
  /\ (outstanding # {} => pc = "generate" /\ outstanding = {i})

C6_Witness ==
  /\ Len(genCalls) = 3
  /\ outstanding = {3}
  /\ genLog[1].kind = "throw"
  /\ genLog[2].kind = "result"

\* C7: while the loop runs, after page i of N has been handled, whatever its
\* outcome, progress is i/N of 100; it never decreases and it is 100 when
\* the loop has handled page N.
InLoopOrJustAfter == pc \in {"extract", "generate", "finalize", "save"}

C7_ProgressFollowsPages ==
  [][InLoopOrJustAfter' =>
       /\ FracEq(progress', <<(i' - 1) * 100, numPages'>>)
       /\ FracLeq(progress, progress')
       /\ (pc' \in {"finalize", "save"} => FracEq(progress', <<100, 1>>))]_vars

C7_Witness ==
  /\ pc = "finalize"
  /\ numPages = 3
  /\ progress = <<300, 3>>
  /\ pagesSkipped = 1
  /\ genLog[2].kind = "throw"
  /\ Yielded(3)

\* --------------------------------------------------------------- session claims
\* the slots of answers whose index is the Mcq's correctAnswerIndex
CorrectCount(answers) ==
  Cardinality({k \in DOMAIN answers : answers[k] = CorrectIndex(k)})

\* C8: an option can be selected for a slot only while the slot is not
\* submitted; a submitted slot keeps its selected index, its status and its
\* submitted flag through every step that is not a retake.
C8_SubmittedSlotIsLocked ==
  [][handleRetakeQuiz \/
       \A s \in Slots :
         isSubmitted[s] =>
           /\ isSubmitted'[s]
           /\ selectedAnswers'[s] = selectedAnswers[s]
           /\ answerStatuses'[s] = answerStatuses[s]]_vars

C8_Witness ==
  /\ NumQuestions = 2
  /\ ~ShowsSummary
  /\ currentQuestionIndex = 0
  /\ isSubmitted[0]
  /\ answerStatuses[0] = "incorrect"
  /\ ~isSubmitted[1]
  /\ selectedAnswers[1] # Null

\* C9: while the slot in view has no selection, no step submits it: the
\* slot stays unanswered and not submitted, no slot changes its flag or its
\* status, no Attempt is created and none is on its way; the step that shows
\* the "No answer selected" message changes neither the index nor a selection.
C9_SubmitWithoutSelectionRejected ==
  [][(~isSubmitted[currentQuestionIndex]
        /\ selectedAnswers[currentQuestionIndex] = Null) =>
       /\ isSubmitted' = isSubmitted
       /\ answerStatuses' = answerStatuses
       /\ answerStatuses[currentQuestionIndex] = "unanswered"
       /\ attempts' = attempts
       /\ pendingSaves' = pendingSaves
       /\ finalAttempt' = finalAttempt
       /\ (sessionToast' = "No answer selected" /\ sessionToast' # sessionToast =>
             /\ currentQuestionIndex' = currentQuestionIndex
             /\ selectedAnswers' = selectedAnswers)]_vars

C9_Witness ==
  /\ NumQuestions = 2
  /\ sessionToast = "No answer selected"
  /\ currentQuestionIndex = 1
  /\ isSubmitted[0]
  /\ ~isSubmitted[1]
  /\ selectedAnswers[1] = Null
  /\ attempts = <<>>

\* C10: the step that submits the last not-yet-submitted slot starts the
\* save of an Attempt with totalQuestions = N, answers = the selected index of
\* every slot and score = the number of slots whose selected index is the
\* Mcq's correctAnswerIndex; the Attempt the store then holds is that one.
C10_LastSubmitFinalizes ==
  [][/\ (~AllSubmitted(isSubmitted) /\ AllSubmitted(isSubmitted') =>
           /\ isSubmittingQuiz'
           /\ Len(pendingSaves') = 1
           /\ pendingSaves'[1].quizId = quiz.id
           /\ pendingSaves'[1].totalQuestions = NumQuestions
           /\ pendingSaves'[1].answers = selectedAnswers'
           /\ \A s \in Slots : selectedAnswers'[s] # Null
           /\ pendingSaves'[1].score = CorrectCount(selectedAnswers'))
     /\ (Len(attempts') > Len(attempts) =>
           /\ Len(attempts') = Len(attempts) + 1
           /\ pendingSaves # <<>>
           /\ attempts'[Len(attempts')].quizId = quiz.id
           /\ attempts'[Len(attempts')].totalQuestions = NumQuestions
           /\ attempts'[Len(attempts')].answers = selectedAnswers
           /\ attempts'[Len(attempts')].score = CorrectCount(selectedAnswers)
           /\ finalAttempt' = attempts'[Len(attempts')]
           /\ quizFinished')]_vars

C10_Witness ==
  /\ NumQuestions = 2
  /\ ShowsSummary
  /\ passAttempts = 1
  /\ Len(attempts) = 1
  /\ finalAttempt.score = 1
  /\ answerStatuses[0] = "incorrect"
  /\ answerStatuses[1] = "correct"
  /\ sessionToast = "Quiz Finished!"

\* C11: in one pass (from the start or a retake to the next retake) at most
\* one Attempt is created; the step that creates it finds every slot
\* submitted and no Attempt of the pass yet, and adds exactly one record; at
\* most one save is on its way, also when Finish is retried after a failed save.
C11_OneAttemptPerPass ==
  [][/\ passAttempts' <= 1
     /\ Len(pendingSaves') <= 1
     /\ (pendingSaves' # <<>> => AllSubmitted(isSubmitted') /\ passAttempts' = 0)
     /\ (attempts' # attempts =>
           /\ Len(attempts') = Len(attempts) + 1
           /\ SubSeq(attempts', 1, Len(attempts)) = attempts
           /\ AllSubmitted(isSubmitted)
           /\ passAttempts = 0
           /\ passAttempts' = 1)
     /\ (passAttempts' # passAttempts /\ attempts' = attempts =>
           passAttempts' = 0 /\ ~AllSubmitted(isSubmitted'))]_vars

\* a Finish retry is on its way after a failed save, in a retaken pass
C11_Witness ==
  /\ NumQuestions = 2
  /\ Len(attempts) = 1
  /\ passAttempts = 0
  /\ sessionToast = "Error"
  /\ isSubmittingQuiz
  /\ Len(pendingSaves) = 1
  /\ AllSubmitted(isSubmitted)

\* C12: the step that leaves the summary view (the retake) puts every slot
\* back to no selection, unanswered and not submitted, empties the elaborated
\* texts so that every slot shows its original explanation, goes to the
\* first question and leaves the stored Attempts as they are; the store
\* never loses an Attempt, holds the same Attempts while a pass is open, and
\* gains exactly one in the step that finishes the pass.
C12_RetakeResetsAndKeepsAttempts ==
  [][/\ (ShowsSummary /\ ~ShowsSummary' =>
           /\ currentQuestionIndex' = 0
           /\ \A s \in Slots :
                /\ selectedAnswers'[s] = Null
                /\ answerStatuses'[s] = "unanswered"
                /\ ~isSubmitted'[s]
                /\ elaboratedExplanations'[s] = NoText
                /\ DisplayedExplanation(s)'.kind = "original"
           /\ attempts' = attempts
           /\ quiz' = quiz)
     /\ (attempts' # attempts =>
           /\ Len(attempts') = Len(attempts) + 1
           /\ SubSeq(attempts', 1, Len(attempts)) = attempts
           /\ ~ShowsSummary
           /\ ShowsSummary')]_vars

\* right after the retake of a session that finished with an elaborated text
C12_Witness ==
  /\ NumQuestions = 2
  /\ ~ShowsSummary
  /\ Len(attempts) = 1
  /\ passAttempts = 0
  /\ sessionToast = "Quiz Finished!"
  /\ currentQuestionIndex = 0
  /\ \A s \in Slots : ~isSubmitted[s] /\ selectedAnswers[s] = Null
  /\ \A s \in Slots : elaboratedExplanations[s] = NoText

\* the Finish Quiz button is rendered and enabled (lines 350-357)
FinishAvailable ==
  /\ ~ShowsSummary
  /\ isSubmitted[currentQuestionIndex]
  /\ currentQuestionIndex = NumQuestions - 1
  /\ ~isSubmittingQuiz
  /\ ~isElaborating[currentQuestionIndex]

\* C13: the step in which a save of the Attempt ends without a stored
\* Attempt shows the "Error" message and leaves the session unfinished: no
\* summary view, quizFinished false, no final Attempt, every slot still
\* submitted with its selection and status, and the Finish Quiz button is
\* there and enabled, so the finish can be triggered again.
C13_FailedSaveIsNotFinished ==
  [][(Len(pendingSaves') < Len(pendingSaves) /\ attempts' = attempts) =>
       /\ sessionToast' = "Error"
       /\ ~ShowsSummary'
       /\ ~quizFinished'
       /\ finalAttempt' = NoAttempt
       /\ AllSubmitted(isSubmitted')
       /\ isSubmitted' = isSubmitted
       /\ selectedAnswers' = selectedAnswers
       /\ answerStatuses' = answerStatuses
       /\ FinishAvailable'
       /\ (ENABLED FinishButton)']_vars

C13_Witness ==
  /\ NumQuestions = 2
  /\ sessionToast = "Error"
  /\ pendingSaves = <<>>
  /\ ~isSubmittingQuiz
  /\ attempts = <<>>
  /\ AllSubmitted(isSubmitted)
  /\ ~quizFinished
  /\ finalAttempt = NoAttempt
  /\ FinishAvailable

\* C14: a step that moves the view to a neighbouring slot without a retake
\* (Previous or Next) changes nothing but the index: every slot keeps its
\* selection, submitted flag and status, and the store, the elaborated
\* texts and the calls in flight stay as they are; such a step is taken
\* neither while an Attempt save is in flight nor while an elaboration call
\* for the slot in view is in flight.
C14_NavigationOnlyMovesTheView ==
  [][(currentQuestionIndex' # currentQuestionIndex /\ ~ShowsSummary) =>
       /\ currentQuestionIndex' \in {currentQuestionIndex - 1, currentQuestionIndex + 1}
       /\ currentQuestionIndex' \in Slots
       /\ selectedAnswers' = selectedAnswers
       /\ isSubmitted' = isSubmitted
       /\ answerStatuses' = answerStatuses
       /\ attempts' = attempts
       /\ elaboratedExplanations' = elaboratedExplanations
       /\ pendingSaves' = pendingSaves
       /\ pendingElab' = pendingElab
       /\ ~isSubmittingQuiz
       /\ pendingSaves = <<>>
       /\ ~isElaborating[currentQuestionIndex]
       /\ currentQuestionIndex \notin pendingElab]_vars

\* back on the first slot after Next and Previous, the second slot holding
\* a selection that is not submitted
C14_Witness ==
  /\ NumQuestions = 2
  /\ ~ShowsSummary
  /\ currentQuestionIndex = 0
  /\ isSubmitted[0]
  /\ answerStatuses[0] = "correct"
  /\ ~isSubmitted[1]
  /\ selectedAnswers[1] # Null
  /\ elaboratedExplanations[0] # NoText

\* the elaboration call for slot s ends in this step
ElaborationEnds(s) == s \in pendingElab /\ s \notin pendingElab'
\* the step gives slot s a text written by the external model
GetsElaboratedText(s) ==
  /\ elaboratedExplanations'[s] # elaboratedExplanations[s]
  /\ elaboratedExplanations'[s].kind = "elaborated"

\* C15 as claimed: when the elaboration call for a slot ends without a text
\* of the external model (the call threw, or its result was missing or
\* malformed), the slot displays exactly what it displayed before and the
\* message shown is the failure notice; no elaboration step changes the quiz.
C15_FailedElaborationKeepsText ==
  [][\A s \in Slots :
       ElaborationEnds(s) =>
         /\ quiz' = quiz
         /\ (~GetsElaboratedText(s) =>
               /\ DisplayedExplanation(s)' = DisplayedExplanation(s)
               /\ sessionToast' = "Elaboration Failed")]_vars

\* --------------------------------------------------------------- curator claims
\* generateBestMcqs was called and has returned its selectedMcqs
CurateReturned ==
  /\ input # NoInput
  /\ cpc \in {"returned", "shown"}
  /\ quickQuizError # "Failed to generate quick quiz"
Complete(mcq) == mcq.question # "" /\ mcq.explanation # ""
\* the elements of sel come from distinct positions of pool
FromDistinctPositions(sel, pool) ==
  \E f \in [1..Len(sel) -> 1..Len(pool)] :
    /\ \A a, b \in 1..Len(sel) : a # b => f[a] # f[b]
    /\ \A k \in 1..Len(sel) : pool[f[k]] = sel[k]
ElementsOf(sel, pool) ==
  \A k \in 1..Len(sel) : \E j \in 1..Len(pool) : sel[k] = pool[j]

\* C16 as claimed: a call with pool.length <= desiredCount returns the pool
\* unchanged and makes no external Curator call.
C16_SmallPoolReturnedUnchanged ==
  (input # NoInput /\ Len(input.allMcqs) <= input.desiredCount) =>
    /\ promptCalls = 0
    /\ CurateReturned
    /\ selectedMcqs = input.allMcqs

\* C16 amended: a call with pool.length <= desiredCount makes no external
\* Curator call and returns, in pool order, the Mcqs of the pool whose
\* question and explanation are not empty, nothing added; that is the pool
\* unchanged when every Mcq of the pool is complete.
C16_SmallPoolReturnsItsCompleteMcqs ==
  (input # NoInput /\ Len(input.allMcqs) <= input.desiredCount) =>
    /\ promptCalls = 0
    /\ indicesOutput = NoOutput
    /\ CurateReturned
    /\ selectedMcqs = SelectSeq(input.allMcqs, Complete)
    /\ ((\A k \in 1..Len(input.allMcqs) : Complete(input.allMcqs[k])) =>
          selectedMcqs = input.allMcqs)

C16_Witness ==
  /\ cpc = "returned"
  /\ ~viaPage
  /\ Len(input.allMcqs) = 3
  /\ input.desiredCount = 3
  /\ Len(selectedMcqs) = 2
  /\ promptCalls = 0

\* the external call was made for more Mcqs than desired and returned indices
ReturnedIndices ==
  /\ input # NoInput
  /\ Len(input.allMcqs) > input.desiredCount
  /\ indicesOutput.kind = "indices"

\* C17 as claimed: when pool.length > desiredCount and the external call
\* returns indices, the call returns exactly the Mcqs of the pool at the
\* returned indices that lie in [0, pool.length), in the order returned, cut
\* to the first desiredCount; never more than desiredCount items, every item
\* an element of the pool, and without throwing.
C17_IndicesSelectFromThePool ==
  ReturnedIndices =>
    /\ CurateReturned
    /\ selectedMcqs =
         Slice(PickInRange(indicesOutput.selectedIndices, input.allMcqs),
               input.desiredCount)
    /\ Len(selectedMcqs) <= input.desiredCount
    /\ ElementsOf(selectedMcqs, input.allMcqs)

\* C17 amended: the indices refer to the list the external call was given,
\* which is the pool without its incomplete Mcqs: the call returns exactly
\* the Mcqs of that list at the returned indices that lie in [0, its length),
\* in the order returned, repeated indices kept, cut to the first
\* desiredCount; never more than desiredCount items, every item an element
\* of the pool, and without throwing.
C17_IndicesSelectFromTheCompleteMcqs ==
  ReturnedIndices =>
    /\ CurateReturned
    /\ promptCalls = 1
    /\ Len(SelectSeq(input.allMcqs, Complete)) > input.desiredCount
    /\ selectedMcqs =
         Slice(PickInRange(indicesOutput.selectedIndices,
                           SelectSeq(input.allMcqs, Complete)),
               input.desiredCount)
    /\ Len(selectedMcqs) <= input.desiredCount
    /\ ElementsOf(selectedMcqs, input.allMcqs)
    /\ \A k \in 1..Len(selectedMcqs) : Complete(selectedMcqs[k])

\* a pool whose first Mcq is incomplete; the index 2 is out of range for the
\* two complete Mcqs, and more in-range indices follow than are desired
C17_Witness ==
  /\ cpc = "returned"
  /\ ~viaPage
  /\ Len(input.allMcqs) = 3
  /\ ~Complete(input.allMcqs[1])
  /\ Complete(input.allMcqs[2]) /\ Complete(input.allMcqs[3])
  /\ input.allMcqs[2] # input.allMcqs[3]
  /\ input.desiredCount = 1
  /\ indicesOutput = Indices(<<2, 1, 0>>)
  /\ selectedMcqs = <<input.allMcqs[3]>>

\* C18: when pool.length > desiredCount and the external call resolves with
\* no output or with an output that has no index array, the call returns
\* exactly min(desiredCount, pool.length) Mcqs taken from distinct positions
\* of the pool.
C18_MalformedResultGivesRandomSubset ==
  (/\ input # NoInput
   /\ Len(input.allMcqs) > input.desiredCount
   /\ indicesOutput.kind \in {"null", "noArray"}) =>
    /\ CurateReturned
    /\ Len(selectedMcqs) = Min(input.desiredCount, Len(input.allMcqs))
    /\ FromDistinctPositions(selectedMcqs, input.allMcqs)

C18_Witness ==
  /\ cpc = "shown"
  /\ viaPage
  /\ indicesOutput = NullOutput
  /\ Len(input.allMcqs) = 3
  /\ input.allMcqs[1] = input.allMcqs[2]
  /\ input.allMcqs[3] # input.allMcqs[1]
  /\ quickQuizData = <<input.allMcqs[3], input.allMcqs[1]>>

\* C19 as claimed: when pool.length > desiredCount and the external call
\* returns a list with no index in [0, pool.length) (an empty list, or only
\* out-of-range indices), the call returns desiredCount Mcqs of the pool.
C19_EmptyIndexListFallsBack ==
  (/\ ReturnedIndices
   /\ PickInRange(indicesOutput.selectedIndices, input.allMcqs) = <<>>) =>
    /\ CurateReturned
    /\ Len(selectedMcqs) = input.desiredCount
    /\ FromDistinctPositions(selectedMcqs, input.allMcqs)

\* C20 as claimed, for a Curator call that throws: when the page's request
\* for a quick quiz over a non-empty pool has ended, a quick quiz has been
\* produced and no error is shown.
C20_ThrowingCuratorStillGivesAQuiz ==
  (/\ viaPage
   /\ cpc = "shown"
   /\ allMcqsForQuickQuiz # <<>>
   /\ promptCalls > 0
   /\ indicesOutput = NoOutput) =>
    /\ quickQuizData # NoQuickQuiz
    /\ quickQuizError = "none"

\* ------------------------------------------------------------ classifier claims
\* C21 as claimed: a page that is neither among the first 5 nor among the
\* last 5 pages of the document is never skipped by the structural-marker
\* rule.
C21_MarkerRuleOnlyAtTheEdges ==
  (/\ clsPc = "done"
   /\ clsInput.pageNumber > 5
   /\ clsInput.pageNumber <= clsInput.totalPages - 5) =>
    ~clsOutcome.markerRule

\* C22: a page with text shorter than 400 characters is always skipped, an
\* empty page too; a page with 600 or more characters always reaches the
\* generator, whatever its number, the page count, its first words and the
\* markers it contains.
C22_ShortSkippedLongKept ==
  clsPc = "done" =>
    /\ (clsInput.text.len < 400 => clsOutcome.class # "content")
    /\ (clsInput.text.len >= 600 =>
          clsOutcome.class = "content" /\ ~clsOutcome.markerRule)

\* a 2000-character page beginning "chapter 4" and naming a marker, page 2
C22_Witness ==
  /\ clsPc = "done"
  /\ clsInput.text = Text(2000, TRUE, 0, TRUE)
  /\ clsInput.pageNumber = 2
  /\ clsInput.totalPages = 12
  /\ clsOutcome.class = "content"

\* ---------------------------------------------------------------- C23
\* C23: every store function whose Firestore call failed throws to its caller,
\* the read functions included: a failed read never returns an empty array or
\* undefined as though it had succeeded.
C23_FailedOperationThrows ==
  (storePc = "done" /\ storeFailed) => storeResult.outcome = "threw"

\* ---------------------------------------------------------------- C24
StoredBefore(id) == \E k \in 1..Len(storeBefore.quizzes) : storeBefore.quizzes[k].id = id

\* C24: when deleteQuiz(id) has returned, the Quiz id and every Attempt of it
\* are gone and every other Quiz and every Attempt of another Quiz that was
\* stored is still stored; when it has thrown, every Quiz and every Attempt
\* that was stored is still stored.
C24_DeleteCascadesOrDoesNothing ==
  (storePc = "done" /\ storeOp.name = "deleteQuiz") =>
    /\ storeFailed <=> storeResult.outcome = "threw"
    /\ storeResult.outcome = "returned" =>
         /\ storeOp.id \notin QuizIds(quizzes)
         /\ AttemptsOf(storeOp.id) = <<>>
         /\ quizzes = SelectSeq(storeBefore.quizzes, LAMBDA q : q.id # storeOp.id)
         /\ \A k \in 1..Len(storeBefore.attempts) :
              storeBefore.attempts[k].quizId # storeOp.id =>
                \E j \in 1..Len(attempts) : attempts[j] = storeBefore.attempts[k]
    /\ storeResult.outcome = "threw" =>
         /\ quizzes = storeBefore.quizzes
         /\ \A k \in 1..Len(storeBefore.attempts) :
              \E j \in 1..Len(attempts) : attempts[j] = storeBefore.attempts[k]

\* ---------------------------------------------------------------- C25
\* the elaboration call for slot s starts in this step
ElaborationStarts(s) == s \notin pendingElab /\ s \in pendingElab'
\* the elaboration call for slot s resolves in this step and stores its text
ElaborationSucceeds(s) ==
  ElaborationEnds(s) /\ elaboratedExplanations'[s] # elaboratedExplanations[s]

\* C25: an elaboration call starts only for the slot in view and only when
\* that slot is submitted; the step in which a call resolves changes the text
\* displayed for its slot and nothing else of the session: every selection,
\* status and submitted flag, the text displayed for every other slot, the
\* score, the view, the final Attempt and the stored Attempts stay as they are.
C25_ElaborationOnlyChangesItsText ==
  [][\A s \in Slots :
       /\ ElaborationStarts(s) => (s = currentQuestionIndex /\ isSubmitted[s])
       /\ ElaborationSucceeds(s) =>
            /\ isSubmitted[s]
            /\ DisplayedExplanation(s)' # DisplayedExplanation(s)
            /\ \A t \in Slots \ {s} : DisplayedExplanation(t)' = DisplayedExplanation(t)
            /\ selectedAnswers' = selectedAnswers
            /\ answerStatuses' = answerStatuses
            /\ isSubmitted' = isSubmitted
            /\ ScoreOf(answerStatuses)' = ScoreOf(answerStatuses)
            /\ currentQuestionIndex' = currentQuestionIndex
            /\ quizFinished' = quizFinished
            /\ finalAttempt' = finalAttempt
            /\ pendingSaves' = pendingSaves
            /\ attempts' = attempts
            /\ quiz' = quiz]_vars

\* the second slot of a two-question quiz shows an elaborated text after its
\* call resolved; the first slot shows its original text
C25_Witness ==
  /\ NumQuestions = 2
  /\ ~ShowsSummary
  /\ currentQuestionIndex = 1
  /\ isSubmitted[1]
  /\ elaboratedExplanations[1] # NoText
  /\ elaboratedExplanations[0] = NoText
  /\ pendingElab = {}
  /\ sessionToast = "Explanation Elaborated"

\* ---------------------------------------------------------------- C28
\* the number of submitted slots
SubmittedCount == Cardinality({s \in Slots : isSubmitted[s]})

\* C28: the submitted slots are the slots 0..k-1 for some k, and the slot in
\* view has an index of at most k. It holds in every session, so in those
\* started without a prior Attempt.
C28_SubmittedSlotsFormAPrefix ==
  /\ \A s \in Slots : isSubmitted[s] <=> s < SubmittedCount
  /\ currentQuestionIndex <= SubmittedCount

\* a session started without a prior Attempt, in its first pass: the first
\* slot is submitted and the view is on the second, which is not
C28_Witness ==
  /\ NumQuestions = 2
  /\ attempts = <<>>
  /\ pendingSaves = <<>>
  /\ ~quizFinished
  /\ isSubmitted[0]
  /\ ~isSubmitted[1]
  /\ currentQuestionIndex = 1

\* ---------------------------------------------------------------- C29
\* no control of the slot in view can be used
ControlsUnavailable ==
  /\ ~ENABLED handleOptionSelect
  /\ ~ENABLED handleSubmitAnswer
  /\ ~ENABLED handlePrevQuestion
  /\ ~ENABLED handleNextQuestion
  /\ ~ENABLED StartElaborate
  /\ ~ENABLED FinishButton

\* C29: an Attempt save and an elaboration call are never in flight together,
\* at most one elaboration call is in flight, and while either kind of call
\* is in flight the slot in view offers no select, submit, previous, next,
\* elaborate or finish.
C29_OneCallInFlightAndControlsLocked ==
  /\ ~(pendingSaves # <<>> /\ pendingElab # {})
  /\ Cardinality(pendingElab) <= 1
  /\ (pendingSaves # <<>> \/ pendingElab # {}) => ControlsUnavailable

\* the elaboration call for the submitted first slot of a two-question quiz
\* is in flight, the second slot not yet submitted
C29_Witness ==
  /\ NumQuestions = 2
  /\ pendingElab = {0}
  /\ currentQuestionIndex = 0
  /\ isSubmitted[0]
  /\ ~isSubmitted[1]
  /\ pendingSaves = <<>>

\* ---------------------------------------------------------------- C26
\* C26: every stored Attempt has the quizId of a stored Quiz (no Quiz is
\* deleted on the quiz page, so the Quizzes stored now are those stored when
\* the Attempt was created), in a session on the quick quiz too.
C26_AttemptsBelongToStoredQuizzes ==
  \A k \in 1..Len(attempts) : attempts[k].quizId \in QuizIds(quizzes)

\* ---------------------------------------------------------------- C27
\* the page-error list holds an entry of this kind for this page
HasPageError(page, kind) ==
  \E k \in 1..Len(pageErrors) : pageErrors[k] = PageError(page, kind)

\* C27: for every page whose generator call returned a result without page
\* notes, the page-error list holds a 'No Notes returned by AI' entry for the
\* page, whether or not the Mcqs of the result were accepted.
C27_MissingNotesAlwaysReported ==
  \A page \in 1..MaxPages :
    (genLog[page].kind = "result" /\ ~genLog[page].notes) =>
      HasPageError(page, "noNotes")

\* a one-page document whose page gave two Mcqs and no notes: the Quiz is
\* stored with both Mcqs, and the page has its 'No Notes' entry and no other
C27_Witness ==
  /\ pc = "done"
  /\ numPages = 1
  /\ genLog[1].kind = "result"
  /\ genLog[1].n = 2
  /\ ~genLog[1].notes
  /\ Len(quizzes) = 1
  /\ Len(quizzes[1].mcqs) = 2
  /\ pageErrors = <<PageError(1, "noNotes")>>

\* ---------------------------------------------------------------- C30
\* the loop has dealt with this page: it skipped it or called the generator
PageProcessed(page) ==
  \/ \E k \in 1..Len(genCalls) : genCalls[k] = page
  \/ \E k \in 1..Len(pageErrors) : pageErrors[k].page = page

\* C30: once the run has shown its error (the document could not be opened,
\* the text of page i could not be extracted, or saveQuiz failed), the run is
\* over: the form is no longer processing, no generator call is in flight, no
\* page from i on has been processed, no Quiz is stored whatever the earlier
\* pages yielded, and the form has not navigated.
C30_FailureAbortsTheRun ==
  toastTitle = "Error" =>
    /\ pc = "done"
    /\ ~isProcessing
    /\ outstanding = {}
    /\ \A page \in 1..MaxPages : page >= i => ~PageProcessed(page)
    /\ (saveQuizCalls = 0 => i <= numPages)
    /\ quizzes = <<>>
    /\ routerPath = 0
    /\ ~ENABLED IngestNext

\* the text of page 2 could not be extracted after page 1 had yielded Mcqs
C30_Witness ==
  /\ toastTitle = "Error"
  /\ numPages >= 2
  /\ i = 2
  /\ Len(allMcqs) > 0
  /\ saveQuizCalls = 0
  /\ quizzes = <<>>

====
